---- MODULE Spec2Model ----
(***************************************************************************)
(* ollama-updater-go: the staleness check of locally cached models against *)
(* the remote registry, the interactive checklist and the update trigger.  *)
(* Two builds of package main are modelled: "main.go" (src/main.go) and    *)
(* "part_000" (src/unnamed/part_000).  They share the inventory fetch, the *)
(* reconciliation loop, handleCheckboxChange and updateModel, and differ   *)
(* in the list the checkboxes are built from and in the key handler.       *)
(*                                                                         *)
(* Strings are sequences of one-character strings.  A JSON object body is  *)
(* a sequence of member keys (1, 2, ...) in the order the server wrote     *)
(* them; a 0 stands for a byte that makes the body unparseable.            *)
(***************************************************************************)
EXTENDS Integers, Sequences, FiniteSets, TLC

VARIABLES
  build,              \* which main() runs
  pc,                 \* position of main()
  localErr,           \* the step of the inventory fetch that failed, or "none"
  localModels,        \* apiResponse.Models
  idx,                \* index of the next localModel of the range loop
  requests,           \* remote GETs issued so far (the two holes of remoteURL)
  fetched,            \* per remote GET: was a descriptor parsed, and its hash
  nonUpToDateModels,  \* the stale list
  localBodyOpen,      \* localResp.Body not yet closed
  openRemote,         \* number of remoteResp.Body not yet closed
  all,                \* the "All" checkbox
  checkboxes,         \* the per-model checkboxes
  focusedIndex,       \* package variable focusedIndex (main.go)
  updates,            \* names updateModel was called with
  enters,             \* Enter presses handled
  name,               \* resolver run: the model name
  identity,           \* resolver run: result of the split
  rest,               \* updateModel: bytes of the response body not yet read
  sawEOF,             \* updateModel: a Read has returned io.EOF
  out,                \* updateModel: bytes printed
  body,               \* updateModel: the whole response body
  upc                 \* updateModel: position of the read loop

vars == <<build, pc, localErr, localModels, idx, requests, fetched,
          nonUpToDateModels, localBodyOpen, openRemote, all, checkboxes,
          focusedIndex, updates, enters, name, identity, rest, sawEOF, out,
          body, upc>>

mainVars == <<build, pc, localErr, localModels, idx, requests, fetched,
              nonUpToDateModels, localBodyOpen, openRemote, all, checkboxes,
              focusedIndex, updates, enters>>
resolverVars == <<name, identity>>
streamVars == <<rest, sawEOF, out, body, upc>>

----------------------------------------------------------------------------
(* Bounds of the model *)

MaxModels == 2      \* models in the local inventory
MaxNameLen == 5     \* characters of a model name in the resolver run
MaxBody == 3        \* bytes of an update response
MaxChunk == 2       \* bytes one Read may return (stands for len(buf))
MaxEnter == 1       \* Enter presses

----------------------------------------------------------------------------
(* Strings *)

Alphabet == {"a", "/", ":"}

RECURSIVE StringsOfLen(_)
StringsOfLen(n) ==
  IF n = 0 THEN {<<>>}
  ELSE {Append(s, c) : s \in StringsOfLen(n - 1), c \in Alphabet}

Strings(n) == UNION {StringsOfLen(k) : k \in 0..n}

RECURSIVE SplitFrom(_, _, _)
SplitFrom(s, sep, cur) ==
  IF s = <<>> THEN <<cur>>
  ELSE IF Head(s) = sep THEN <<cur>> \o SplitFrom(Tail(s), sep, <<>>)
  ELSE SplitFrom(Tail(s), sep, Append(cur, Head(s)))

\* strings.Split(s, sep) with a one-character separator
Split(s, sep) == SplitFrom(s, sep, <<>>)

\* strings.Contains(s, c) with a one-character c
Contains(s, c) == \E i \in 1..Len(s) : s[i] = c

LibraryPrefix == <<"l", "i", "b", "r", "a", "r", "y", "/">>

----------------------------------------------------------------------------
(* Remote identity: the split of localModel.Name and the library/ prefix *)

\* strings.Split(localModel.Name, ":")[1] is in range
HasTag(n) == Len(Split(n, ":")) >= 2

\* position of the first ":" of a name that has one
FirstColon(n) ==
  CHOOSE i \in 1..Len(n) : n[i] = ":" /\ \A j \in 1..(i - 1) : n[j] # ":"

\* variant: the tag is all that follows the first ":" (SplitN with n = 2)
TagWholeRemainder(n) == SubSeq(n, FirstColon(n) + 1, Len(n))

\* tag := strings.Split(localModel.Name, ":")[1]
SplitTag(n) == Split(n, ":")[2]

\* variant: the prefix is added without the test for "/"
RepoAlwaysPrefixed(repo) == LibraryPrefix \o repo

\* if !strings.Contains(repo, "/") { repo = "library/" + repo }
QualifyRepo(repo) ==
  IF ~Contains(repo, "/") THEN LibraryPrefix \o repo ELSE repo

\* repo := strings.Split(localModel.Name, ":")[0], then qualified
SplitRepo(n) == QualifyRepo(Split(n, ":")[1])

\* the two holes of "https://ollama.ai/v2/%s/manifests/%s"
RemoteURL(n) == [repo |-> SplitRepo(n), tag |-> SplitTag(n)]

----------------------------------------------------------------------------
(* Fingerprint of a remote descriptor *)

\* json.Unmarshal into map[string]interface{}: the set of member keys
ParseOK(b) == \A i \in 1..Len(b) : b[i] # 0
Unmarshal(b) == {b[i] : i \in 1..Len(b)}

RECURSIVE SortedKeys(_)
SortedKeys(S) ==
  IF S = {} THEN <<>>
  ELSE LET m == CHOOSE x \in S : \A y \in S : x <= y
       IN <<m>> \o SortedKeys(S \ {m})

\* json.Marshal of a map writes the members in sorted key order
Marshal(obj) == SortedKeys(obj)

RECURSIVE Sha256Base64(_)
\* base64(sha256(bytes)): an injective code of the bytes
Sha256Base64(bytes) ==
  IF bytes = <<>> THEN 1 ELSE Head(bytes) + 3 * Sha256Base64(Tail(bytes))

calculateHash(obj) == Sha256Base64(Marshal(obj))

\* variant: the comparison inverted
IsStaleInverted(remoteHash, localDigest) == remoteHash = localDigest

\* if remoteHash != localDigest
IsStale(remoteHash, localDigest) == remoteHash # localDigest

----------------------------------------------------------------------------
(* Inputs *)

Builds == {"main.go", "part_000"}

\* a:1, a/a:1 and the tagless a
ModelNames == {<<"a", ":", "1">>, <<"a", "/", "a", ":", "1">>, <<"a">>}

RemoteBodies == {<<1>>, <<1, 2>>, <<2, 1>>, <<0>>}

LocalDigests == {calculateHash({1}), calculateHash({1, 2})}

LocalModel == [Name : ModelNames, Digest : LocalDigests]

Inventories == UNION {[1..n -> LocalModel] : n \in 0..MaxModels}

\* outcomes of one remote GET: transport error, non-200 status, body read
\* error, or a body that was read in full
FetchResults ==
  {[kind |-> k, body |-> <<>>] : k \in {"transport", "status", "read"}}
    \cup {[kind |-> "body", body |-> b] : b \in RemoteBodies}

----------------------------------------------------------------------------
(* main(): the local inventory *)

MainInit ==
  /\ build \in Builds
  /\ pc = "start"
  /\ localErr = "none"
  /\ localModels = <<>>
  /\ idx = 1
  /\ requests = <<>>
  /\ fetched = <<>>
  /\ nonUpToDateModels = <<>>
  /\ localBodyOpen = FALSE
  /\ openRemote = 0
  /\ all = [checked |-> FALSE, disabled |-> FALSE]
  /\ checkboxes = <<>>
  /\ focusedIndex = 0
  /\ updates = <<>>
  /\ enters = 0

\* main() is not running (the resolver and updateModel runs)
MainOff ==
  /\ build = "part_000"
  /\ pc = "off"
  /\ localErr = "none"
  /\ localModels = <<>>
  /\ idx = 1
  /\ requests = <<>>
  /\ fetched = <<>>
  /\ nonUpToDateModels = <<>>
  /\ localBodyOpen = FALSE
  /\ openRemote = 0
  /\ all = [checked |-> FALSE, disabled |-> FALSE]
  /\ checkboxes = <<>>
  /\ focusedIndex = 0
  /\ updates = <<>>
  /\ enters = 0

ResolverOff ==
  /\ name = <<>>
  /\ identity = [state |-> "off", repo |-> <<>>, tag |-> <<>>]

StreamOff ==
  /\ body = <<>>
  /\ rest = <<>>
  /\ sawEOF = FALSE
  /\ out = <<>>
  /\ upc = "off"

\* variant: the error is logged and main() goes on with the zero inventory
LocalErrorIgnored == "loop"

\* log.Fatalf on a failed http.Get, io.ReadAll or json.Unmarshal
LocalErrorExit == "fatalLocal"

\* http.Get(localEndpoint), io.ReadAll, json.Unmarshal: one of them fails.
\* os.Exit runs no deferred call: a body that was opened stays open.
FetchLocalFails ==
  /\ pc = "start"
  /\ \E kind \in {"get", "read", "parse"} :
       /\ localErr' = kind
       /\ localBodyOpen' = (kind # "get")
  /\ pc' = LocalErrorExit
  /\ UNCHANGED <<build, localModels, idx, requests, fetched, nonUpToDateModels,
                 openRemote, all, checkboxes, focusedIndex, updates, enters>>

\* the inventory is fetched, read and parsed
FetchLocalModels ==
  /\ pc = "start"
  /\ \E models \in Inventories : localModels' = models
  /\ localBodyOpen' = TRUE
  /\ pc' = "loop"
  /\ UNCHANGED <<build, localErr, idx, requests, fetched, nonUpToDateModels,
                 openRemote, all, checkboxes, focusedIndex, updates, enters>>

----------------------------------------------------------------------------
(* main(): the reconciliation loop *)

\* variant: break in place of continue
BreakAfterFailure(i, n) == n + 1

\* log.Printf(...); continue
NextAfterFailure(i, n) == i + 1

\* variant: the name is put in front
PrependStale(list, nm) == <<nm>> \o list

\* nonUpToDateModels = append(nonUpToDateModels, localModel.Name)
AppendStale(list, nm) == Append(list, nm)

\* One iteration of the range loop.  A name without ":" makes the index [1]
\* panic; the panic unwinds main() and runs its deferred Close calls.
\* `defer remoteResp.Body.Close()` runs when main() returns, not at the end
\* of the iteration.
ReconcileOne ==
  /\ pc = "loop"
  /\ idx <= Len(localModels)
  /\ LET m == localModels[idx] IN
       IF ~HasTag(m.Name)
       THEN /\ pc' = "panicName"
            /\ localBodyOpen' = FALSE
            /\ openRemote' = 0
            /\ UNCHANGED <<idx, requests, fetched, nonUpToDateModels>>
       ELSE \E r \in FetchResults :
              LET parsed == r.kind = "body" /\ ParseOK(r.body)
                  remoteHash ==
                    IF parsed THEN calculateHash(Unmarshal(r.body)) ELSE 0
              IN /\ requests' = Append(requests, RemoteURL(m.Name))
                 /\ fetched' = Append(fetched, [ok |-> parsed, hash |-> remoteHash])
                 /\ openRemote' =
                      IF r.kind = "transport" THEN openRemote ELSE openRemote + 1
                 /\ nonUpToDateModels' =
                      IF parsed /\ IsStale(remoteHash, m.Digest)
                      THEN AppendStale(nonUpToDateModels, m.Name)
                      ELSE nonUpToDateModels
                 /\ idx' = IF parsed THEN idx + 1
                           ELSE NextAfterFailure(idx, Len(localModels))
                 /\ UNCHANGED <<pc, localBodyOpen>>
  /\ UNCHANGED <<build, localErr, localModels, all, checkboxes, focusedIndex,
                 updates, enters>>

----------------------------------------------------------------------------
(* main(): the checklist *)

AllLabel == <<"A", "l", "l">>

\* the list the checkboxes are built from
CheckboxLabels ==
  IF build = "part_000" THEN nonUpToDateModels
  ELSE [i \in 1..Len(localModels) |-> localModels[i].Name]

\* tview.NewCheckbox() for "All" and for each label; app.Run().  The "All"
\* checkbox gets no SetChangedFunc and is not an element of checkboxes.
BuildChecklist ==
  /\ pc = "loop"
  /\ idx > Len(localModels)
  /\ all' = [checked |-> FALSE, disabled |-> FALSE]
  /\ checkboxes' = [i \in 1..Len(CheckboxLabels) |->
                      [label |-> CheckboxLabels[i], checked |-> FALSE,
                       disabled |-> FALSE]]
  /\ focusedIndex' = 0
  /\ pc' = "ui"
  /\ UNCHANGED <<build, localErr, localModels, idx, requests, fetched,
                 nonUpToDateModels, localBodyOpen, openRemote, updates, enters>>

handleCheckboxChange(cbs, index, checked, itemText) ==
  IF itemText = AllLabel
  THEN [i \in 1..Len(cbs) |->
          [cbs[i] EXCEPT !.checked = checked, !.disabled = checked]]
  ELSE LET allChecked == ~(\E i \in 1..Len(cbs) : cbs[i].checked)
       IN [cbs EXCEPT ![1] = [@ EXCEPT !.checked = allChecked,
                                       !.disabled = allChecked]]

\* The user toggles the "All" checkbox: no changed-handler is attached to it.
ToggleAll ==
  /\ pc = "ui"
  /\ all' = [all EXCEPT !.checked = ~@]
  /\ UNCHANGED <<build, pc, localErr, localModels, idx, requests, fetched,
                 nonUpToDateModels, localBodyOpen, openRemote, checkboxes,
                 focusedIndex, updates, enters>>

\* The user toggles the enabled checkbox i: the widget flips it and calls the
\* closure of SetChangedFunc.  The closure reads the loop variables i and cb:
\* the checkbox's own (per-iteration loop variables) or the last one's (one
\* loop variable shared by all closures).
ToggleItem ==
  /\ pc = "ui"
  /\ \E i \in 1..Len(checkboxes) :
       /\ ~checkboxes[i].disabled
       /\ \E j \in {i, Len(checkboxes)} :
            LET toggled == [checkboxes EXCEPT ![i].checked = ~@]
            IN checkboxes' = handleCheckboxChange(toggled, j, toggled[i].checked,
                                                  checkboxes[j].label)
  /\ UNCHANGED <<build, pc, localErr, localModels, idx, requests, fetched,
                 nonUpToDateModels, localBodyOpen, openRemote, all,
                 focusedIndex, updates, enters>>

RECURSIVE CheckedLabels(_)
\* selectedModels: the labels of the checked checkboxes, in list order
CheckedLabels(cbs) ==
  IF cbs = <<>> THEN <<>>
  ELSE (IF Head(cbs).checked THEN <<Head(cbs).label>> ELSE <<>>)
         \o CheckedLabels(Tail(cbs))

\* handleInput, Enter.  part_000: updateModel for each selected model; each
\* call returns or ends the process in log.Fatalf.  checkboxes[0] is read
\* when nothing is selected, and panics on an empty list.  main.go: the case
\* is empty.
PressEnter ==
  /\ pc = "ui"
  /\ enters < MaxEnter
  /\ enters' = enters + 1
  /\ IF build = "main.go"
     THEN UNCHANGED <<pc, updates, localBodyOpen, openRemote>>
     ELSE LET selectedModels == CheckedLabels(checkboxes) IN
          IF Len(selectedModels) = 0 /\ Len(checkboxes) = 0
          THEN /\ pc' = "panicIndex"
               /\ localBodyOpen' = FALSE
               /\ openRemote' = 0
               /\ UNCHANGED updates
          ELSE IF Len(selectedModels) > 0 \/ checkboxes[1].checked
          THEN \E failAt \in 0..Len(selectedModels) :
                 /\ updates' = updates \o
                      (IF failAt = 0 THEN selectedModels
                       ELSE SubSeq(selectedModels, 1, failAt))
                 /\ pc' = IF failAt = 0 THEN "ui" ELSE "fatalUpdate"
                 /\ UNCHANGED <<localBodyOpen, openRemote>>
          ELSE UNCHANGED <<pc, updates, localBodyOpen, openRemote>>
  /\ UNCHANGED <<build, localErr, localModels, idx, requests, fetched,
                 nonUpToDateModels, all, checkboxes, focusedIndex>>

\* handleInput, tcell.KeyUp (main.go)
KeyUp ==
  /\ pc = "ui"
  /\ build = "main.go"
  /\ focusedIndex > 0
  /\ focusedIndex' = focusedIndex - 1
  /\ UNCHANGED <<build, pc, localErr, localModels, idx, requests, fetched,
                 nonUpToDateModels, localBodyOpen, openRemote, all, checkboxes,
                 updates, enters>>

\* handleInput, tcell.KeyDown (main.go)
KeyDown ==
  /\ pc = "ui"
  /\ build = "main.go"
  /\ focusedIndex < Len(checkboxes) - 1
  /\ focusedIndex' = focusedIndex + 1
  /\ UNCHANGED <<build, pc, localErr, localModels, idx, requests, fetched,
                 nonUpToDateModels, localBodyOpen, openRemote, all, checkboxes,
                 updates, enters>>

\* app.Run() returns nil and main() returns: the deferred Close calls run.
Quit ==
  /\ pc = "ui"
  /\ pc' = "exited"
  /\ localBodyOpen' = FALSE
  /\ openRemote' = 0
  /\ UNCHANGED <<build, localErr, localModels, idx, requests, fetched,
                 nonUpToDateModels, all, checkboxes, focusedIndex, updates,
                 enters>>

Init == MainInit /\ ResolverOff /\ StreamOff

Next ==
  \/ (FetchLocalFails /\ UNCHANGED <<resolverVars, streamVars>>)
  \/ (FetchLocalModels /\ UNCHANGED <<resolverVars, streamVars>>)
  \/ (ReconcileOne /\ UNCHANGED <<resolverVars, streamVars>>)
  \/ (BuildChecklist /\ UNCHANGED <<resolverVars, streamVars>>)
  \/ (ToggleAll /\ UNCHANGED <<resolverVars, streamVars>>)
  \/ (ToggleItem /\ UNCHANGED <<resolverVars, streamVars>>)
  \/ (PressEnter /\ UNCHANGED <<resolverVars, streamVars>>)
  \/ (KeyUp /\ UNCHANGED <<resolverVars, streamVars>>)
  \/ (KeyDown /\ UNCHANGED <<resolverVars, streamVars>>)
  \/ (Quit /\ UNCHANGED <<resolverVars, streamVars>>)

Spec == Init /\ [][Next]_vars

----------------------------------------------------------------------------
(* The resolver on its own: every name of up to MaxNameLen characters *)

ResolverStart ==
  /\ name \in Strings(MaxNameLen)
  /\ identity = [state |-> "start", repo |-> <<>>, tag |-> <<>>]

ResolverInit == MainOff /\ ResolverStart /\ StreamOff

\* repo, tag := strings.Split(Name, ":")[0], strings.Split(Name, ":")[1],
\* then the library/ prefix; index [1] panics on a name without ":"
ResolveName ==
  /\ identity.state = "start"
  /\ identity' =
       IF HasTag(name)
       THEN [state |-> "resolved", repo |-> SplitRepo(name),
             tag |-> SplitTag(name)]
       ELSE [state |-> "panic", repo |-> <<>>, tag |-> <<>>]
  /\ UNCHANGED name

ResolverNext == ResolveName /\ UNCHANGED <<mainVars, streamVars>>

ResolverSpec == ResolverInit /\ [][ResolverNext]_vars

----------------------------------------------------------------------------
(* updateModel: the read loop over the response body *)

Bytes == {"x", "y"}

RECURSIVE BytesOfLen(_)
BytesOfLen(n) ==
  IF n = 0 THEN {<<>>}
  ELSE {Append(s, c) : s \in BytesOfLen(n - 1), c \in Bytes}

Bodies == UNION {BytesOfLen(k) : k \in 0..MaxBody}

Min(a, b) == IF a <= b THEN a ELSE b

StreamStart ==
  /\ body \in Bodies
  /\ rest = body
  /\ sawEOF = FALSE
  /\ out = <<>>
  /\ upc = "send"

\* json.Marshal, http.NewRequest, client.Do: log.Fatalf on an error
SendRequest ==
  /\ upc = "send"
  /\ \E ok \in BOOLEAN : upc' = IF ok THEN "read" ELSE "fatalSend"
  /\ UNCHANGED <<body, rest, sawEOF, out>>

\* What resp.Body.Read(buf) may return: n bytes of what is left, at most
\* len(buf), with a nil error, with io.EOF once nothing is left after them,
\* or with another error.  After io.EOF every Read returns (0, io.EOF).
ReadResults ==
  {r \in [n : 0..Min(MaxChunk, Len(rest)), err : {"nil", "EOF", "error"}] :
     /\ (r.err = "EOF" => r.n = Len(rest))
     /\ (sawEOF => (r.n = 0 /\ r.err = "EOF"))}

\* One iteration of the for loop
ReadChunk ==
  /\ upc = "read"
  /\ \E r \in ReadResults :
       IF r.err = "error"
       THEN /\ upc' = "fatalRead"
            /\ UNCHANGED <<rest, sawEOF, out>>
       ELSE IF r.n = 0
       THEN /\ upc' = "done"
            /\ UNCHANGED <<rest, sawEOF, out>>
       ELSE /\ out' = out \o SubSeq(rest, 1, r.n)
            /\ rest' = SubSeq(rest, r.n + 1, Len(rest))
            /\ sawEOF' = (r.err = "EOF")
            /\ UNCHANGED upc
  /\ UNCHANGED body

StreamNext ==
  \/ (SendRequest /\ UNCHANGED <<mainVars, resolverVars>>)
  \/ (ReadChunk /\ UNCHANGED <<mainVars, resolverVars>>)

StreamInit == MainOff /\ ResolverOff /\ StreamStart

StreamSpec == StreamInit /\ [][StreamNext]_vars

----------------------------------------------------------------------------
(* Properties *)

Range(s) == {s[i] : i \in 1..Len(s)}

\* the inventory entry i was fetched, parsed and hashed to another digest
FetchedAndDiffers(i) ==
  fetched[i].ok /\ fetched[i].hash # localModels[i].Digest

\* C1: a name is in the stale list iff an inventory entry of that name was
\* fetched and parsed and its fingerprint differs from the entry's digest;
\* an entry whose fingerprint equals its digest, or whose fetch failed, adds
\* nothing (inventory [a:1, X] with remote fingerprint X: empty list; with
\* another fingerprint: exactly [a:1]).
C1_StaleIffFetchedAndDiffers ==
  /\ Len(fetched) <= Len(localModels)
  /\ \A i \in 1..Len(fetched) :
       localModels[i].Name \in Range(nonUpToDateModels)
         <=> \E j \in 1..Len(fetched) :
               /\ localModels[j].Name = localModels[i].Name
               /\ FetchedAndDiffers(j)
  /\ \A nm \in Range(nonUpToDateModels) :
       \E j \in 1..Len(fetched) : localModels[j].Name = nm
  /\ (Len(localModels) = 1 /\ Len(fetched) = 1 /\ fetched[1].ok) =>
       nonUpToDateModels =
         IF fetched[1].hash = localModels[1].Digest THEN <<>>
         ELSE <<localModels[1].Name>>

\* the loop is over; one entry is up to date and unlisted, one is stale and
\* listed, under different names
C1_Witness ==
  /\ pc = "ui"
  /\ \E i, j \in 1..Len(fetched) :
       /\ fetched[i].ok /\ fetched[i].hash = localModels[i].Digest
       /\ localModels[i].Name \notin Range(nonUpToDateModels)
       /\ FetchedAndDiffers(j)
       /\ localModels[j].Name \in Range(nonUpToDateModels)

\* C2: a failed remote fetch never aborts the batch: the remote requests are
\* those of the inventory entries, once each and in input order; the loop
\* goes on with the next entry after a failure; it ends early only on a name
\* without ":", and otherwise reaches the checklist with every entry tried.
C2_FetchFailuresNeverAbort ==
  /\ Len(requests) = Len(fetched)
  /\ Len(requests) <= Len(localModels)
  /\ \A i \in 1..Len(requests) : requests[i] = RemoteURL(localModels[i].Name)
  /\ (pc = "loop" => idx = Len(requests) + 1)
  /\ (pc \in {"ui", "exited", "fatalUpdate", "panicIndex"} =>
        Len(requests) = Len(localModels))
  /\ (pc = "panicName" => ~HasTag(localModels[Len(requests) + 1].Name))
  /\ (Len(requests) > 0 => pc # "fatalLocal")

\* the checklist is reached after a failed fetch was followed by a good one
C2_Witness ==
  /\ pc = "ui"
  /\ \E i, j \in 1..Len(fetched) : i < j /\ ~fetched[i].ok /\ fetched[j].ok

RECURSIVE StaleUpTo(_)
\* names of the entries 1..k that were fetched and differ, in inventory order
StaleUpTo(k) ==
  IF k = 0 THEN <<>>
  ELSE StaleUpTo(k - 1) \o
         (IF FetchedAndDiffers(k) THEN <<localModels[k].Name>> ELSE <<>>)

\* C3 as amended: the stale list holds exactly one entry for each inventory
\* entry that was fetched and compared AND found stale, in inventory order,
\* not reordered and not deduplicated; up-to-date and failed entries are
\* left out.
C3_StaleEntriesInOrder == nonUpToDateModels = StaleUpTo(Len(fetched))

\* two entries, one of which failed its fetch, and a list of one
C3_Witness ==
  /\ pc = "ui"
  /\ Len(localModels) >= 2
  /\ \E k \in 1..Len(fetched) : ~fetched[k].ok
  /\ Len(nonUpToDateModels) = Len(localModels) - 1

\* C3 as claimed: one entry for each entry that was fetched and compared,
\* stale or not (N entries with one failed fetch: N-1 entries).
C3_OneEntryPerFetched ==
  pc = "ui" =>
    Len(nonUpToDateModels) =
      Cardinality({i \in 1..Len(fetched) : fetched[i].ok})

\* the text before the first ":"
BeforeFirstColon(n) == SubSeq(n, 1, FirstColon(n) - 1)

\* the text between the first ":" and the next one, or the end
UpToNextColon(n) ==
  LET r == TagWholeRemainder(n)
  IN IF Contains(r, ":") THEN BeforeFirstColon(r) ELSE r

\* library/ + repo when repo has no "/", repo otherwise
Qualified(repo) ==
  IF \E i \in 1..Len(repo) : repo[i] = "/" THEN repo
  ELSE <<"l", "i", "b", "r", "a", "r", "y", "/">> \o repo

\* C4 as amended: a name with a ":" resolves; repo is the text before the
\* first ":", prefixed with library/ when it has no "/"; tag is the text
\* between the first ":" and the next ":" (or the end): what follows a
\* second ":" is dropped.
C4_ResolveFirstTwoSegments ==
  (identity.state # "start" /\ Contains(name, ":")) =>
    /\ identity.state = "resolved"
    /\ identity.repo = Qualified(BeforeFirstColon(name))
    /\ identity.tag = UpToNextColon(name)

\* a:a:a resolved to (library/a, a)
C4_Witness ==
  /\ name = <<"a", ":", "a", ":", "a">>
  /\ identity = [state |-> "resolved",
                 repo |-> <<"l", "i", "b", "r", "a", "r", "y", "/", "a">>,
                 tag |-> <<"a">>]

\* C4 as claimed: tag is everything after the first ":", further ":"
\* included.
C4_TagIsWholeRemainder ==
  (identity.state # "start" /\ Contains(name, ":")) =>
    /\ identity.state = "resolved"
    /\ identity.repo = Qualified(BeforeFirstColon(name))
    /\ identity.tag = TagWholeRemainder(name)

\* C5: after a toggle of a model checkbox, "All" is checked iff every model
\* checkbox is checked, and "All" is enabled when it is unchecked.
C5_AllTracksItems ==
  [][ToggleItem =>
       /\ all'.checked <=> \A i \in 1..Len(checkboxes') : checkboxes'[i].checked
       /\ ~all'.checked => ~all'.disabled]_vars

\* C6: after a toggle of "All", every model checkbox is checked and disabled
\* when "All" is checked, unchecked and enabled when it is not.
C6_AllForcesItems ==
  [][ToggleAll =>
       \A i \in 1..Len(checkboxes') :
         /\ checkboxes'[i].checked = all'.checked
         /\ checkboxes'[i].disabled = all'.checked]_vars

\* C7: Enter calls updateModel once, in list order, for each checked model,
\* and for every listed model when "All" is checked; with nothing checked it
\* calls none and returns.  (An update that ends the process in log.Fatalf
\* is left aside.)
C7_EnterUpdatesSelection ==
  [][(PressEnter /\ pc' # "fatalUpdate") =>
       /\ pc' = "ui"
       /\ updates' = updates \o
            (IF all.checked
             THEN [i \in 1..Len(checkboxes) |-> checkboxes[i].label]
             ELSE CheckedLabels(checkboxes))]_vars

\* C8: a failed inventory fetch, read or parse ends the process at once:
\* no remote request, no checklist, no update.
C8_LocalFailureIsFatalFirst ==
  localErr # "none" =>
    /\ pc = "fatalLocal"
    /\ localModels = <<>>
    /\ requests = <<>>
    /\ fetched = <<>>
    /\ nonUpToDateModels = <<>>
    /\ checkboxes = <<>>
    /\ updates = <<>>
    /\ enters = 0

\* the inventory body did not parse and the process has ended
C8_Witness == localErr = "parse" /\ pc = "fatalLocal"

\* C9: when updateModel leaves its read loop, it has printed every byte of
\* the response body, in order, and the stream is at its end.
C9_ForwardsEveryByte == upc = "done" => (out = body /\ rest = <<>>)

\* C10: during reconciliation at most one remote response body is open: the
\* body of one model is closed before the next request is issued.
C10_AtMostOneRemoteBodyOpen == openRemote <= 1

====
